---- MODULE Spec2Model ----
(***************************************************************************)
(* Buddy-system offset allocator (crate buddy-system).                     *)
(*                                                                         *)
(* buddy.rs  : the Block Tree (alloc / dealloc / tidy / tidy_gas /         *)
(*             tidy_timed) over a generational arena of Blocks.            *)
(* arena.rs  : BuddyBookkeeping (the Manager), Allocation (the Handle) and *)
(*             the mpsc channel carrying the indices of dropped handles.   *)
(*                                                                         *)
(* The Manager's methods take &mut self, so they are serialized; each is   *)
(* one action.  A handle's drop only sends on the channel, so a drop that  *)
(* overlaps a Manager call is equivalent to the same drop taken just       *)
(* before the call (if the drain loop still receives it) or just after it. *)
(***************************************************************************)
EXTENDS Integers, Sequences, FiniteSets, TLC

(***************************************************************************)
(* Bounds of the model                                                     *)
(***************************************************************************)
MaxCount == 5       \* alloc is called with count in 1..MaxCount
MaxGas == 4         \* tidy_gas is called with gas in 0..MaxGas
MaxTicks == 3       \* clock readings before the deadline, in 0..MaxTicks
MaxQueue == 2       \* a handle is dropped only while fewer entries are queued
MaxSpareGas == 1    \* "enough gas" is tried from q + n up to q + n + MaxSpareGas

\* <<size, min_block_size, max_block_size>> passed to BuddyBookkeeping::new
Configs ==
    { <<4, 1, 4>>, <<4, 2, 4>>, <<2, 1, 1>>, <<4, 1, 3>>, <<4, 3, 3>> }

VARIABLES
    size,            \* length of the root range (argument of new)
    min_block_size,  \* BuddyBookkeeping.min_block_size
    max_block_size,  \* BuddyBookkeeping.max_block_size
    debug_assertions, \* whether debug_assert! is compiled in: "on", "off",
                     \* or "either" while no debug_assert! has failed yet
                     \* (the two builds have behaved alike so far)
    blocks,          \* BuddyBookkeeping.blocks : Index -> Block
    queue,           \* the mpsc channel: indices sent, not yet received
    handles,         \* the live Allocation values
    panicked,        \* TRUE once a call has panicked
    last             \* the last operation, its argument and what it did

vars == <<size, min_block_size, max_block_size, debug_assertions,
          blocks, queue, handles, panicked, last>>

config == <<size, min_block_size, max_block_size>>

(***************************************************************************)
(* buddy.rs                                                                *)
(***************************************************************************)
\* x & (x - 1) == 0 clears the lowest set bit: true iff x has one bit set
RECURSIVE is_pow_of_two(_)
is_pow_of_two(x) ==
    IF x = 0 THEN FALSE
    ELSE IF x = 1 THEN TRUE
    ELSE IF x % 2 = 1 THEN FALSE
    ELSE is_pow_of_two(x \div 2)

\* struct Block { range, state }; Split(first, second) keeps its two
\* indices in children
Block(start, end, state, children) ==
    [start |-> start, end |-> end, state |-> state, children |-> children]

RangeLen(block) == block.end - block.start

\* BuddyBookkeeping.root: the index returned by the first insert
root == 0

\* Arena::insert returns an index that no index handed out earlier and still
\* held anywhere (arena, handle, channel) is equal to
NewIndex(arena, held) ==
    CHOOSE i \in 0..(Cardinality(DOMAIN arena) + Cardinality(held)) :
        /\ i \notin DOMAIN arena
        /\ i \notin held
        /\ \A j \in 0..(i - 1) : j \in DOMAIN arena \/ j \in held

None == << >>
Some(x) == << x >>

\* alloc with the Ordering::Equal arm taking the block whatever its state
RECURSIVE alloc_any_state(_, _, _, _)
alloc_any_state(arena, block_index, desired_size, held) ==
    LET block == arena[block_index]
        len == RangeLen(block)
    IN  IF len < desired_size THEN
            [arena |-> arena, result |-> None]
        ELSE IF len = desired_size THEN
            [arena |-> [arena EXCEPT ![block_index].state = "Occupied"],
             result |-> Some(block_index)]
        ELSE IF block.state = "Occupied" THEN
            [arena |-> arena, result |-> None]
        ELSE IF block.state = "Available" THEN
            LET mid == block.start + (len \div 2)
                first == NewIndex(arena, held)
                a1 == arena @@ (first :> Block(block.start, mid, "Available", << >>))
                second == NewIndex(a1, held)
                a2 == a1 @@ (second :> Block(mid, block.end, "Available", << >>))
                a3 == [a2 EXCEPT ![block_index].state = "Split",
                                 ![block_index].children = <<first, second>>]
            IN  alloc_any_state(a3, first, desired_size, held)
        ELSE
            LET r1 == alloc_any_state(arena, block.children[1], desired_size, held)
            IN  IF r1.result # None THEN r1
                ELSE alloc_any_state(r1.arena, block.children[2], desired_size, held)

\* alloc recording the two halves of a split in the wrong order
RECURSIVE alloc_swapped_children(_, _, _, _)
alloc_swapped_children(arena, block_index, desired_size, held) ==
    LET block == arena[block_index]
        len == RangeLen(block)
    IN  IF len < desired_size THEN
            [arena |-> arena, result |-> None]
        ELSE IF len = desired_size THEN
            IF block.state = "Available" THEN
                [arena |-> [arena EXCEPT ![block_index].state = "Occupied"],
                 result |-> Some(block_index)]
            ELSE
                [arena |-> arena, result |-> None]
        ELSE IF block.state = "Occupied" THEN
            [arena |-> arena, result |-> None]
        ELSE IF block.state = "Available" THEN
            LET mid == block.start + (len \div 2)
                first == NewIndex(arena, held)
                a1 == arena @@ (first :> Block(block.start, mid, "Available", << >>))
                second == NewIndex(a1, held)
                a2 == a1 @@ (second :> Block(mid, block.end, "Available", << >>))
                a3 == [a2 EXCEPT ![block_index].state = "Split",
                                 ![block_index].children = <<second, first>>]
            IN  alloc_swapped_children(a3, first, desired_size, held)
        ELSE
            LET r1 == alloc_swapped_children(arena, block.children[1],
                                             desired_size, held)
            IN  IF r1.result # None THEN r1
                ELSE alloc_swapped_children(r1.arena, block.children[2],
                                            desired_size, held)

\* alloc trying the second child of a Split block before the first
RECURSIVE alloc_right_first(_, _, _, _)
alloc_right_first(arena, block_index, desired_size, held) ==
    LET block == arena[block_index]
        len == RangeLen(block)
    IN  IF len < desired_size THEN
            [arena |-> arena, result |-> None]
        ELSE IF len = desired_size THEN
            IF block.state = "Available" THEN
                [arena |-> [arena EXCEPT ![block_index].state = "Occupied"],
                 result |-> Some(block_index)]
            ELSE
                [arena |-> arena, result |-> None]
        ELSE IF block.state = "Occupied" THEN
            [arena |-> arena, result |-> None]
        ELSE IF block.state = "Available" THEN
            LET mid == block.start + (len \div 2)
                first == NewIndex(arena, held)
                a1 == arena @@ (first :> Block(block.start, mid, "Available", << >>))
                second == NewIndex(a1, held)
                a2 == a1 @@ (second :> Block(mid, block.end, "Available", << >>))
                a3 == [a2 EXCEPT ![block_index].state = "Split",
                                 ![block_index].children = <<first, second>>]
            IN  alloc_right_first(a3, first, desired_size, held)
        ELSE
            LET r1 == alloc_right_first(arena, block.children[2], desired_size, held)
            IN  IF r1.result # None THEN r1
                ELSE alloc_right_first(r1.arena, block.children[1],
                                       desired_size, held)

RECURSIVE alloc(_, _, _, _)
alloc(arena, block_index, desired_size, held) ==
    LET block == arena[block_index]
        len == RangeLen(block)
    IN  IF len < desired_size THEN
            [arena |-> arena, result |-> None]
        ELSE IF len = desired_size THEN
            IF block.state = "Available" THEN
                [arena |-> [arena EXCEPT ![block_index].state = "Occupied"],
                 result |-> Some(block_index)]
            ELSE
                [arena |-> arena, result |-> None]
        ELSE IF block.state = "Occupied" THEN
            [arena |-> arena, result |-> None]
        ELSE IF block.state = "Available" THEN
            LET mid == block.start + (len \div 2)
                first == NewIndex(arena, held)
                a1 == arena @@ (first :> Block(block.start, mid, "Available", << >>))
                second == NewIndex(a1, held)
                a2 == a1 @@ (second :> Block(mid, block.end, "Available", << >>))
                a3 == [a2 EXCEPT ![block_index].state = "Split",
                                 ![block_index].children = <<first, second>>]
            IN  alloc(a3, first, desired_size, held)
        ELSE
            LET r1 == alloc(arena, block.children[1], desired_size, held)
            IN  IF r1.result # None THEN r1
                ELSE alloc(r1.arena, block.children[2], desired_size, held)

dealloc(arena, block_index) ==
    [arena EXCEPT ![block_index].state = "Available"]

\* Arena::remove of both children
RemoveChildren(arena, first, second) ==
    [i \in (DOMAIN arena) \ {first, second} |-> arena[i]]

\* tidy deciding the merge on the children's states as read before the
\* recursive calls
RECURSIVE tidy_stale_children(_, _)
tidy_stale_children(arena, block_index) ==
    LET block == arena[block_index]
    IN  IF block.state = "Split" THEN
            LET first == block.children[1]
                second == block.children[2]
                r1 == tidy_stale_children(arena, first)
                r2 == tidy_stale_children(r1.arena, second)
            IN  IF /\ arena[first].state = "Available"
                   /\ arena[second].state = "Available" THEN
                    [arena |-> [RemoveChildren(r2.arena, first, second)
                                    EXCEPT ![block_index].state = "Available",
                                           ![block_index].children = << >>],
                     available |-> TRUE]
                ELSE [arena |-> r2.arena, available |-> FALSE]
        ELSE IF block.state = "Available" THEN
            [arena |-> arena, available |-> TRUE]
        ELSE
            [arena |-> arena, available |-> FALSE]

\* tidy merging as soon as one of the two children is available
RECURSIVE tidy_either_available(_, _)
tidy_either_available(arena, block_index) ==
    LET block == arena[block_index]
    IN  IF block.state = "Split" THEN
            LET first == block.children[1]
                second == block.children[2]
                r1 == tidy_either_available(arena, first)
                r2 == tidy_either_available(r1.arena, second)
            IN  IF r1.available \/ r2.available THEN
                    [arena |-> [RemoveChildren(r2.arena, first, second)
                                    EXCEPT ![block_index].state = "Available",
                                           ![block_index].children = << >>],
                     available |-> TRUE]
                ELSE [arena |-> r2.arena, available |-> FALSE]
        ELSE IF block.state = "Available" THEN
            [arena |-> arena, available |-> TRUE]
        ELSE
            [arena |-> arena, available |-> FALSE]

RECURSIVE tidy(_, _)
tidy(arena, block_index) ==
    LET block == arena[block_index]
    IN  IF block.state = "Split" THEN
            LET first == block.children[1]
                second == block.children[2]
                r1 == tidy(arena, first)
                r2 == tidy(r1.arena, second)
            IN  IF r1.available /\ r2.available THEN
                    [arena |-> [RemoveChildren(r2.arena, first, second)
                                    EXCEPT ![block_index].state = "Available",
                                           ![block_index].children = << >>],
                     available |-> TRUE]
                ELSE [arena |-> r2.arena, available |-> FALSE]
        ELSE IF block.state = "Available" THEN
            [arena |-> arena, available |-> TRUE]
        ELSE
            [arena |-> arena, available |-> FALSE]

\* tidy_gas reporting IsAvailable(true) when the gas has run out
RECURSIVE tidy_gas_exhausted_true(_, _, _)
tidy_gas_exhausted_true(arena, block_index, gas) ==
    IF gas = 0 THEN
        [arena |-> arena, available |-> TRUE, gas |-> gas,
         seen |-> {}, avail |-> {}]
    ELSE
    LET block == arena[block_index]
        g == gas - 1
    IN  IF block.state = "Split" THEN
            LET first == block.children[1]
                second == block.children[2]
                r1 == tidy_gas_exhausted_true(arena, first, g)
                r2 == tidy_gas_exhausted_true(r1.arena, second, r1.gas)
                seen == {block_index} \cup r1.seen \cup r2.seen
            IN  IF r1.available /\ r2.available THEN
                    [arena |-> [RemoveChildren(r2.arena, first, second)
                                    EXCEPT ![block_index].state = "Available",
                                           ![block_index].children = << >>],
                     available |-> TRUE, gas |-> r2.gas, seen |-> seen,
                     avail |-> {block_index} \cup r1.avail \cup r2.avail]
                ELSE [arena |-> r2.arena, available |-> FALSE, gas |-> r2.gas,
                      seen |-> seen, avail |-> r1.avail \cup r2.avail]
        ELSE IF block.state = "Available" THEN
            [arena |-> arena, available |-> TRUE, gas |-> g,
             seen |-> {block_index}, avail |-> {block_index}]
        ELSE
            [arena |-> arena, available |-> FALSE, gas |-> g,
             seen |-> {block_index}, avail |-> {}]

\* tidy_gas stopping one unit of gas early
RECURSIVE tidy_gas_off_by_one(_, _, _)
tidy_gas_off_by_one(arena, block_index, gas) ==
    IF gas <= 1 THEN
        [arena |-> arena, available |-> FALSE, gas |-> gas,
         seen |-> {}, avail |-> {}]
    ELSE
    LET block == arena[block_index]
        g == gas - 1
    IN  IF block.state = "Split" THEN
            LET first == block.children[1]
                second == block.children[2]
                r1 == tidy_gas_off_by_one(arena, first, g)
                r2 == tidy_gas_off_by_one(r1.arena, second, r1.gas)
                seen == {block_index} \cup r1.seen \cup r2.seen
            IN  IF r1.available /\ r2.available THEN
                    [arena |-> [RemoveChildren(r2.arena, first, second)
                                    EXCEPT ![block_index].state = "Available",
                                           ![block_index].children = << >>],
                     available |-> TRUE, gas |-> r2.gas, seen |-> seen,
                     avail |-> {block_index} \cup r1.avail \cup r2.avail]
                ELSE [arena |-> r2.arena, available |-> FALSE, gas |-> r2.gas,
                      seen |-> seen, avail |-> r1.avail \cup r2.avail]
        ELSE IF block.state = "Available" THEN
            [arena |-> arena, available |-> TRUE, gas |-> g,
             seen |-> {block_index}, avail |-> {block_index}]
        ELSE
            [arena |-> arena, available |-> FALSE, gas |-> g,
             seen |-> {block_index}, avail |-> {}]

\* Besides the arena, the result carries what is left of the gas, the blocks
\* whose state was inspected (seen) and the blocks that reported
\* IsAvailable(true) (avail).
RECURSIVE tidy_gas(_, _, _)
tidy_gas(arena, block_index, gas) ==
    IF gas = 0 THEN
        [arena |-> arena, available |-> FALSE, gas |-> gas,
         seen |-> {}, avail |-> {}]
    ELSE
    LET block == arena[block_index]
        g == gas - 1
    IN  IF block.state = "Split" THEN
            LET first == block.children[1]
                second == block.children[2]
                r1 == tidy_gas(arena, first, g)
                r2 == tidy_gas(r1.arena, second, r1.gas)
                seen == {block_index} \cup r1.seen \cup r2.seen
            IN  IF r1.available /\ r2.available THEN
                    [arena |-> [RemoveChildren(r2.arena, first, second)
                                    EXCEPT ![block_index].state = "Available",
                                           ![block_index].children = << >>],
                     available |-> TRUE, gas |-> r2.gas, seen |-> seen,
                     avail |-> {block_index} \cup r1.avail \cup r2.avail]
                ELSE [arena |-> r2.arena, available |-> FALSE, gas |-> r2.gas,
                      seen |-> seen, avail |-> r1.avail \cup r2.avail]
        ELSE IF block.state = "Available" THEN
            [arena |-> arena, available |-> TRUE, gas |-> g,
             seen |-> {block_index}, avail |-> {block_index}]
        ELSE
            [arena |-> arena, available |-> FALSE, gas |-> g,
             seen |-> {block_index}, avail |-> {}]

\* Instant::now() >= deadline: the clock is monotonic, so the readings of one
\* call are "before the deadline" for some number of readings (ticks) and
\* "at or past it" from then on
RECURSIVE tidy_timed(_, _, _)
tidy_timed(arena, block_index, ticks) ==
    IF ticks = 0 THEN
        [arena |-> arena, available |-> FALSE, ticks |-> ticks,
         seen |-> {}, avail |-> {}]
    ELSE
    LET block == arena[block_index]
        t == ticks - 1
    IN  IF block.state = "Split" THEN
            LET first == block.children[1]
                second == block.children[2]
                r1 == tidy_timed(arena, first, t)
                r2 == tidy_timed(r1.arena, second, r1.ticks)
                seen == {block_index} \cup r1.seen \cup r2.seen
            IN  IF r1.available /\ r2.available THEN
                    [arena |-> [RemoveChildren(r2.arena, first, second)
                                    EXCEPT ![block_index].state = "Available",
                                           ![block_index].children = << >>],
                     available |-> TRUE, ticks |-> r2.ticks, seen |-> seen,
                     avail |-> {block_index} \cup r1.avail \cup r2.avail]
                ELSE [arena |-> r2.arena, available |-> FALSE, ticks |-> r2.ticks,
                      seen |-> seen, avail |-> r1.avail \cup r2.avail]
        ELSE IF block.state = "Available" THEN
            [arena |-> arena, available |-> TRUE, ticks |-> t,
             seen |-> {block_index}, avail |-> {block_index}]
        ELSE
            [arena |-> arena, available |-> FALSE, ticks |-> t,
             seen |-> {block_index}, avail |-> {}]

(***************************************************************************)
(* arena.rs                                                                *)
(***************************************************************************)
RECURSIVE ilog2(_)
ilog2(x) == IF x < 2 THEN 0 ELSE 1 + ilog2(x \div 2)

RECURSIVE pow(_, _)
pow(b, e) == IF e = 0 THEN 1 ELSE b * pow(b, e - 1)

Max2(a, b) == IF a >= b THEN a ELSE b
Min2(a, b) == IF a <= b THEN a ELSE b

\* best_size rounding every count up to the next power of two, exact powers
\* included
best_size_always_up(count, minb, maxb) ==
    LET rounded == pow(2, ilog2(count) + 1)
    IN  Min2(Max2(rounded, minb), maxb)

\* let best_size = ... .max(self.min_block_size).min(self.max_block_size)
best_size(count, minb, maxb) ==
    LET rounded == IF pow(2, ilog2(count)) = count THEN count
                   ELSE pow(2, ilog2(count) + 1)
    IN  Min2(Max2(rounded, minb), maxb)

\* struct Allocation { index, range, to_remove }
Allocation(index, start, end) == [index |-> index, start |-> start, end |-> end]

\* the Allocation built from the index that buddy::alloc found, with the
\* range given the rounded length of the block
new_allocation_rounded(arena, x, count) ==
    Allocation(x, arena[x].start, arena[x].end)

\* the closure of BuddyBookkeeping::alloc: the Allocation built from the index
\* that buddy::alloc found
new_allocation(arena, x, count) ==
    Allocation(x, arena[x].start, arena[x].start + count)

\* every index some Allocation or channel entry still holds
Held == { h.index : h \in handles } \cup { queue[i] : i \in 1..Len(queue) }

\* what `last` records: the operation, its argument, the Option<Index> an
\* alloc found, the entries a tidy variant received and dealloc'ed, and the
\* operation before it
Op(op, arg, result, taken, freed) ==
    [op |-> op, arg |-> arg, result |-> result, taken |-> taken, freed |-> freed,
     prev |-> last.op]

\* BuddyBookkeeping::new
Init ==
    /\ \E c \in Configs :
        /\ size = c[1]
        /\ min_block_size = c[2]
        /\ max_block_size = c[3]
        /\ is_pow_of_two(c[1])
        /\ c[3] <= c[1]
        /\ c[2] <= c[3]
    /\ debug_assertions = "either"
    /\ blocks = (root :> Block(0, size, "Available", << >>))
    /\ queue = << >>
    /\ handles = {}
    /\ panicked = FALSE
    /\ last = [op |-> "new", arg |-> 0, result |-> None, taken |-> << >>,
               freed |-> << >>, prev |-> "new"]

\* BuddyBookkeeping::alloc
Alloc(count) ==
    /\ ~panicked
    /\ LET best == best_size(count, min_block_size, max_block_size)
           r == alloc(blocks, root, best, Held)
           \* debug_assert!(is_pow_of_two(desired_size)) at the top of
           \* buddy::alloc
           assert_fails == ~is_pow_of_two(best)
       IN  IF best < count THEN
               /\ last' = Op("alloc", count, None, << >>, << >>)
               /\ UNCHANGED <<blocks, handles, panicked, debug_assertions>>
           ELSE
               \/ /\ assert_fails
                  /\ debug_assertions \in {"either", "on"}
                  /\ debug_assertions' = "on"
                  /\ panicked' = TRUE
                  /\ last' = Op("alloc", count, None, << >>, << >>)
                  /\ UNCHANGED <<blocks, handles>>
               \/ /\ assert_fails => debug_assertions \in {"either", "off"}
                  /\ debug_assertions' =
                        IF assert_fails THEN "off" ELSE debug_assertions
                  /\ blocks' = r.arena
                  /\ handles' =
                        IF r.result = None THEN handles
                        ELSE handles \cup
                                 { new_allocation(r.arena, r.result[1], count) }
                  /\ last' = Op("alloc", count, r.result, << >>, << >>)
                  /\ UNCHANGED panicked
    /\ UNCHANGED <<config, queue>>

\* a drop that frees the block on the spot as well
Drop_eager(a) ==
    /\ ~panicked
    /\ Len(queue) < MaxQueue
    /\ handles' = handles \ {a}
    /\ queue' = Append(queue, a.index)
    /\ blocks' = dealloc(blocks, a.index)
    /\ last' = Op("drop", a.index, None, << >>, << >>)
    /\ UNCHANGED <<config, debug_assertions, panicked>>

\* a drop of a handle of which another copy stays live
Drop_of_a_copy(a) ==
    /\ ~panicked
    /\ Len(queue) < MaxQueue
    /\ handles' = handles
    /\ queue' = Append(queue, a.index)
    /\ last' = Op("drop", a.index, None, << >>, << >>)
    /\ UNCHANGED <<config, debug_assertions, blocks, panicked>>

\* impl Drop for Allocation
Drop(a) ==
    /\ ~panicked
    /\ Len(queue) < MaxQueue
    /\ handles' = handles \ {a}
    /\ queue' = Append(queue, a.index)
    /\ last' = Op("drop", a.index, None, << >>, << >>)
    /\ UNCHANGED <<config, debug_assertions, blocks, panicked>>

\* the `while let Ok(index) = try_recv()` loop of tidy: every entry is
\* received and dealloc'ed; arena[index] panics on an index not in the arena
RECURSIVE tidy_drain(_, _, _, _)
tidy_drain(arena, q, taken, freed) ==
    IF q = << >> THEN
        [arena |-> arena, queue |-> q, taken |-> taken, freed |-> freed,
         panic |-> FALSE]
    ELSE
        LET index == Head(q)
        IN  IF index \notin DOMAIN arena THEN
                [arena |-> arena, queue |-> Tail(q),
                 taken |-> Append(taken, index), freed |-> freed,
                 panic |-> TRUE]
            ELSE tidy_drain(dealloc(arena, index), Tail(q),
                            Append(taken, index), Append(freed, index))

\* BuddyBookkeeping::tidy as a function of the arena and the channel
bk_tidy(arena, q) ==
    LET d == tidy_drain(arena, q, << >>, << >>)
    IN  [arena |-> IF d.panic THEN d.arena ELSE tidy(d.arena, root).arena,
         queue |-> d.queue, taken |-> d.taken, freed |-> d.freed,
         panic |-> d.panic]

\* BuddyBookkeeping::tidy
Tidy ==
    /\ ~panicked
    /\ LET r == bk_tidy(blocks, queue)
       IN  /\ queue' = r.queue
           /\ panicked' = r.panic
           /\ blocks' = r.arena
           /\ last' = Op("tidy", 0, None, r.taken, r.freed)
    /\ UNCHANGED <<config, debug_assertions, handles>>

\* the drain loop of tidy_gas without the `gas -= 1` after the dealloc
RECURSIVE tidy_gas_drain_free_of_charge(_, _, _, _, _)
tidy_gas_drain_free_of_charge(arena, q, gas, taken, freed) ==
    IF q = << >> THEN
        [arena |-> arena, queue |-> q, gas |-> gas, taken |-> taken,
         freed |-> freed, returned |-> FALSE, panic |-> FALSE]
    ELSE
        LET index == Head(q)
        IN  IF gas = 0 THEN
                [arena |-> arena, queue |-> Tail(q), gas |-> gas,
                 taken |-> Append(taken, index), freed |-> freed,
                 returned |-> TRUE, panic |-> FALSE]
            ELSE IF index \notin DOMAIN arena THEN
                [arena |-> arena, queue |-> Tail(q), gas |-> gas,
                 taken |-> Append(taken, index), freed |-> freed,
                 returned |-> TRUE, panic |-> TRUE]
            ELSE tidy_gas_drain_free_of_charge(
                     dealloc(arena, index), Tail(q), gas,
                     Append(taken, index), Append(freed, index))

\* the drain loop of tidy_gas: try_recv takes the entry out of the channel,
\* then gas is tested, and `return` leaves the method with the entry in hand
RECURSIVE tidy_gas_drain(_, _, _, _, _)
tidy_gas_drain(arena, q, gas, taken, freed) ==
    IF q = << >> THEN
        [arena |-> arena, queue |-> q, gas |-> gas, taken |-> taken,
         freed |-> freed, returned |-> FALSE, panic |-> FALSE]
    ELSE
        LET index == Head(q)
        IN  IF gas = 0 THEN
                [arena |-> arena, queue |-> Tail(q), gas |-> gas,
                 taken |-> Append(taken, index), freed |-> freed,
                 returned |-> TRUE, panic |-> FALSE]
            ELSE IF index \notin DOMAIN arena THEN
                [arena |-> arena, queue |-> Tail(q), gas |-> gas,
                 taken |-> Append(taken, index), freed |-> freed,
                 returned |-> TRUE, panic |-> TRUE]
            ELSE tidy_gas_drain(dealloc(arena, index), Tail(q), gas - 1,
                                Append(taken, index), Append(freed, index))

\* BuddyBookkeeping::tidy_gas as a function of the arena, the channel and
\* gas; drained is the arena as the drain loop leaves it, and seen, avail and
\* gas are those of the tree pass (of the drain loop if it returned early)
bk_tidy_gas(arena, q, gas) ==
    LET d == tidy_gas_drain(arena, q, gas, << >>, << >>)
        t == tidy_gas(d.arena, root, d.gas)
    IN  [arena |-> IF d.returned THEN d.arena ELSE t.arena,
         queue |-> d.queue, taken |-> d.taken, freed |-> d.freed,
         panic |-> d.panic, returned |-> d.returned, drained |-> d.arena,
         gas |-> IF d.returned THEN d.gas ELSE t.gas,
         seen |-> IF d.returned THEN {} ELSE t.seen,
         avail |-> IF d.returned THEN {} ELSE t.avail]

\* BuddyBookkeeping::tidy_gas
TidyGas(gas) ==
    /\ ~panicked
    /\ LET r == bk_tidy_gas(blocks, queue, gas)
       IN  /\ queue' = r.queue
           /\ panicked' = r.panic
           /\ blocks' = r.arena
           /\ last' = Op("tidy_gas", gas, None, r.taken, r.freed)
    /\ UNCHANGED <<config, debug_assertions, handles>>

\* the drain loop of tidy_timed: the clock is read after the entry has been
\* received; a reading is not consumed when the channel is empty
RECURSIVE tidy_timed_drain(_, _, _, _, _)
tidy_timed_drain(arena, q, ticks, taken, freed) ==
    IF q = << >> THEN
        [arena |-> arena, queue |-> q, ticks |-> ticks, taken |-> taken,
         freed |-> freed, returned |-> FALSE, panic |-> FALSE]
    ELSE
        LET index == Head(q)
        IN  IF ticks = 0 THEN
                [arena |-> arena, queue |-> Tail(q), ticks |-> ticks,
                 taken |-> Append(taken, index), freed |-> freed,
                 returned |-> TRUE, panic |-> FALSE]
            ELSE IF index \notin DOMAIN arena THEN
                [arena |-> arena, queue |-> Tail(q), ticks |-> ticks,
                 taken |-> Append(taken, index), freed |-> freed,
                 returned |-> TRUE, panic |-> TRUE]
            ELSE tidy_timed_drain(dealloc(arena, index), Tail(q), ticks - 1,
                                  Append(taken, index), Append(freed, index))

\* BuddyBookkeeping::tidy_timed as a function of the arena, the channel and
\* the number of clock readings before the deadline
bk_tidy_timed(arena, q, ticks) ==
    LET d == tidy_timed_drain(arena, q, ticks, << >>, << >>)
        t == tidy_timed(d.arena, root, d.ticks)
    IN  [arena |-> IF d.returned THEN d.arena ELSE t.arena,
         queue |-> d.queue, taken |-> d.taken, freed |-> d.freed,
         panic |-> d.panic, returned |-> d.returned, drained |-> d.arena,
         ticks |-> IF d.returned THEN d.ticks ELSE t.ticks,
         seen |-> IF d.returned THEN {} ELSE t.seen,
         avail |-> IF d.returned THEN {} ELSE t.avail]

\* BuddyBookkeeping::tidy_timed
TidyTimed(ticks) ==
    /\ ~panicked
    /\ LET r == bk_tidy_timed(blocks, queue, ticks)
       IN  /\ queue' = r.queue
           /\ panicked' = r.panic
           /\ blocks' = r.arena
           /\ last' = Op("tidy_timed", ticks, None, r.taken, r.freed)
    /\ UNCHANGED <<config, debug_assertions, handles>>

Next ==
    \/ \E count \in 1..MaxCount : Alloc(count)
    \/ \E a \in handles : Drop(a)
    \/ Tidy
    \/ \E gas \in 0..MaxGas : TidyGas(gas)
    \/ \E ticks \in 0..MaxTicks : TidyTimed(ticks)

Spec == Init /\ [][Next]_vars


(***************************************************************************)
(* Vocabulary of the properties                                            *)
(***************************************************************************)
Occupied == { i \in DOMAIN blocks : blocks[i].state = "Occupied" }

Disjoint(s1, e1, s2, e2) == e1 <= s2 \/ e2 <= s1

\* the tree is the root alone, Available, covering the whole universe
RootAlone ==
    /\ DOMAIN blocks = {root}
    /\ blocks[root] = Block(0, size, "Available", << >>)

\* smallest power of two >= count, clamped into [min_block_size, max_block_size]
RoundedSize(count) ==
    LET p == CHOOSE q \in count..(2 * count) :
                 /\ is_pow_of_two(q)
                 /\ \A q2 \in count..(q - 1) : ~is_pow_of_two(q2)
    IN  IF p < min_block_size THEN min_block_size
        ELSE IF p > max_block_size THEN max_block_size
        ELSE p

NoDuplicates(seq) ==
    \A i, j \in 1..Len(seq) : i # j => seq[i] # seq[j]

\* C1: in every reachable state the ranges of the Occupied nodes are pairwise
\* disjoint subsets of [0, size), and the ranges of any two live handles do
\* not overlap.
C1_Disjointness ==
    /\ \A i \in Occupied :
        /\ 0 <= blocks[i].start
        /\ blocks[i].start < blocks[i].end
        /\ blocks[i].end <= size
    /\ \A i, j \in Occupied :
        i # j => Disjoint(blocks[i].start, blocks[i].end,
                          blocks[j].start, blocks[j].end)
    /\ \A a, b \in handles :
        a # b => Disjoint(a.start, a.end, b.start, b.end)

\* two handles are live together, right after the alloc that made the second
C1_Witness ==
    /\ last.op = "alloc"
    /\ last.result # None
    /\ Cardinality(handles) >= 2
    /\ Cardinality(Occupied) >= 2

\* C2 (as claimed): an alloc(count) returns no allocation if and only if
\* count > max_block_size or no Available node is at least as long as the
\* rounded size.
C2_NoneIffNoRoom ==
    [][ last'.op = "alloc" =>
          ( last'.result = None
            <=> \/ last'.arg > max_block_size
                \/ ~ \E i \in DOMAIN blocks :
                        /\ blocks[i].state = "Available"
                        /\ RangeLen(blocks[i]) >= RoundedSize(last'.arg) ) ]_vars

\* C3: every successful alloc(count) returns a handle whose node was
\* Available (or was carved out of an Available node by this call), is now
\* Occupied with a range as long as the rounded size, and whose range is
\* [s, s + count) with s the start of that node.
C3_SuccessfulAlloc ==
    [][ (last'.op = "alloc" /\ last'.result # None) =>
          LET x == last'.result[1]
              count == last'.arg
              a == Allocation(x, blocks'[x].start, blocks'[x].start + count)
          IN  /\ x \in DOMAIN blocks'
              /\ blocks'[x].state = "Occupied"
              /\ RangeLen(blocks'[x]) = RoundedSize(count)
              /\ x \in DOMAIN blocks => blocks[x].state = "Available"
              /\ \E p \in DOMAIN blocks :
                    /\ blocks[p].state = "Available"
                    /\ blocks[p].start <= blocks'[x].start
                    /\ blocks'[x].end <= blocks[p].end
              /\ a \notin handles
              /\ handles' = handles \cup {a}
              /\ a.end - a.start = count
              /\ a.end <= blocks'[x].end ]_vars

\* a successful alloc whose handle is shorter than its node
C3_Witness ==
    /\ last.op = "alloc"
    /\ last.result # None
    /\ RangeLen(blocks[last.result[1]]) > last.arg
    /\ \E a \in handles : a.index = last.result[1] /\ a.end - a.start = last.arg

\* C4 (as claimed): an alloc that returns no allocation leaves the tree and
\* the queue as they were.
C4_FailedAllocNoEffect ==
    [][ (last'.op = "alloc" /\ last'.result = None /\ ~panicked') =>
          (blocks' = blocks /\ queue' = queue) ]_vars

\* C5 (as claimed): tidy_gas(0) receives no queue entry and leaves the tree
\* and the queue as they were.
C5_ZeroGasNoEffect ==
    [][ (last'.op = "tidy_gas" /\ last'.arg = 0) =>
          (last'.taken = << >> /\ blocks' = blocks /\ queue' = queue) ]_vars

\* C6 (as claimed): in every tidy_gas and tidy_timed call each entry taken
\* out of the queue has been dealloc'ed in that call, and every entry that was
\* not dealloc'ed is still in the queue afterwards.
C6_DrainLosesNothing ==
    [][ last'.op \in {"tidy_gas", "tidy_timed"} =>
          (last'.taken = last'.freed /\ queue = last'.freed \o queue') ]_vars

\* C7 (as claimed): once every handle has been destroyed and tidy() has
\* drained them, the tree is the root alone, Available, covering the whole
\* universe, and a following alloc(max_block_size) succeeds.
C7_FullReclamation ==
    /\ [](( last.op = "tidy" /\ last.taken # << >> /\ handles = {}
            /\ ~panicked ) => RootAlone)
    /\ [][ ( last.op = "tidy" /\ last.taken # << >> /\ handles = {}
             /\ last'.op = "alloc" /\ last'.arg = max_block_size )
           => last'.result # None ]_vars

\* C8 (as claimed): when tidy() returns the queue is empty, every entry has
\* been dealloc'ed once, and no node whose handle was destroyed before the
\* call (an Occupied node that no live handle owns) is still Occupied.
C8_TidyDrainsFully ==
    (last.op = "tidy" /\ ~panicked) =>
        /\ queue = << >>
        /\ last.taken = last.freed
        /\ NoDuplicates(last.freed)
        /\ \A i \in Occupied : \E a \in handles : a.index = i

\* C9: a tidy() that directly follows a tidy() changes neither the tree nor
\* the queue.
C9_TidyIdempotent ==
    [][ (last.op = "tidy" /\ last'.op = "tidy") =>
          (blocks' = blocks /\ queue' = queue /\ handles' = handles) ]_vars

\* a second tidy() in a row, on a tree that is still fragmented around an
\* Occupied node
C9_Witness ==
    /\ last.op = "tidy"
    /\ last.prev = "tidy"
    /\ \E i \in DOMAIN blocks : blocks[i].state = "Split"
    /\ Occupied # {}

\* C10: dropping a handle only appends its index to the queue and changes no
\* node; and in every step, a node whose index is queued before and after
\* the step is the same Occupied node, and no alloc hands out a queued index.
C10_DropDefersFree ==
    [][ /\ last'.op = "drop" =>
            /\ blocks' = blocks
            /\ \E a \in handles :
                /\ handles' = handles \ {a}
                /\ queue' = Append(queue, a.index)
                /\ blocks'[a.index].state = "Occupied"
        /\ \A k \in 1..Len(queue') :
            LET i == queue'[k]
            IN  /\ i \in DOMAIN blocks'
                /\ blocks'[i].state = "Occupied"
                /\ (\E k0 \in 1..Len(queue) : queue[k0] = i)
                      => (i \in DOMAIN blocks /\ blocks'[i] = blocks[i])
                /\ last'.op = "alloc" => last'.result # Some(i) ]_vars

\* a handle has been dropped while another entry was already queued, and its
\* node is still Occupied
C10_Witness ==
    /\ last.op = "drop"
    /\ Len(queue) >= 2
    /\ queue[Len(queue)] = last.arg
    /\ blocks[last.arg].state = "Occupied"


\* C11: in every reachable state every node's range length is a power of two,
\* every Split node has exactly two children in the arena, the first covering
\* the lower half and the second the upper half of its range, and the root
\* covers [0, size).
C11_Structure ==
    /\ root \in DOMAIN blocks
    /\ blocks[root].start = 0
    /\ blocks[root].end = size
    /\ \A i \in DOMAIN blocks :
        /\ is_pow_of_two(RangeLen(blocks[i]))
        /\ blocks[i].state \in {"Available", "Occupied", "Split"}
        /\ blocks[i].state # "Split" => blocks[i].children = << >>
        /\ blocks[i].state = "Split" =>
            /\ Len(blocks[i].children) = 2
            /\ blocks[i].children[1] # blocks[i].children[2]
            /\ blocks[i].children[1] \in DOMAIN blocks
            /\ blocks[i].children[2] \in DOMAIN blocks
            /\ LET first == blocks[blocks[i].children[1]]
                   second == blocks[blocks[i].children[2]]
               IN  /\ first.start = blocks[i].start
                   /\ first.end = second.start
                   /\ second.end = blocks[i].end
                   /\ 2 * RangeLen(first) = RangeLen(blocks[i])
                   /\ 2 * RangeLen(second) = RangeLen(blocks[i])

\* a Split node under the Split root, one leaf Occupied, after a partial tidy
C11_Witness ==
    /\ last.op \in {"tidy_gas", "tidy_timed"}
    /\ blocks[root].state = "Split"
    /\ \E i \in DOMAIN blocks :
        /\ i # root
        /\ blocks[i].state = "Split"
        /\ blocks[blocks[i].children[2]].state = "Occupied"


\* the indices some live handle owns
Owned == { a.index : a \in handles }

Elems(seq) == { seq[k] : k \in 1..Len(seq) }

\* l and s are the two children of the Split node p
Buddies(arena, p, l, s) ==
    /\ p \in DOMAIN arena
    /\ arena[p].state = "Split"
    /\ arena[p].children \in { <<l, s>>, <<s, l>> }

\* a tidy() met the buddies l and s both Occupied, the handle of l dropped
\* and queued, the handle of s live: l is Available afterwards, the parent
\* still Split and s untouched
C12_TidyKeepsSplit ==
    [][ last'.op = "tidy" =>
          \A p, l, s \in DOMAIN blocks :
              ( /\ Buddies(blocks, p, l, s)
                /\ blocks[l].state = "Occupied"
                /\ blocks[s].state = "Occupied"
                /\ l \in Elems(queue)
                /\ s \in Owned )
              => /\ {p, l, s} \subseteq DOMAIN blocks'
                 /\ blocks'[l] = [blocks[l] EXCEPT !.state = "Available"]
                 /\ blocks'[p] = blocks[p]
                 /\ blocks'[s] = blocks[s] ]_vars

\* l was freed by the tidy() just made and is blocked by its Occupied buddy
SiblingBlocked(l) ==
    /\ last.op = "tidy"
    /\ l \in Elems(last.freed)
    /\ l \in DOMAIN blocks
    /\ blocks[l].state = "Available"
    /\ \E p, s \in DOMAIN blocks :
        /\ Buddies(blocks, p, l, s)
        /\ blocks[s].state = "Occupied"
        /\ s \in Owned

\* the next step is an alloc that passes the size gate with the length of l
\* as its rounded size
AllocOfLen(l) ==
    /\ last'.op = "alloc"
    /\ last'.arg <= max_block_size
    /\ RoundedSize(last'.arg) = RangeLen(blocks[l])

LowestFit(l) ==
    \A i \in DOMAIN blocks :
        ( /\ blocks[i].state = "Available"
          /\ RangeLen(blocks[i]) >= RangeLen(blocks[l]) )
        => blocks[l].start <= blocks[i].start

C13_DesiredSizePowerOfTwo ==
    [][ ( /\ last'.op = "alloc"
          /\ best_size(last'.arg, min_block_size, max_block_size) >= last'.arg )
        => /\ is_pow_of_two(best_size(last'.arg, min_block_size, max_block_size))
           /\ ~panicked' ]_vars

Ancestor(arena, p, i) ==
    /\ p # i
    /\ arena[p].start <= arena[i].start
    /\ arena[i].end <= arena[p].end

\* what C15 says of one Block Tree pass that took the arena from `before` to
\* `after`, having inspected `seen` and got IsAvailable(true) from `avail`
NoPrematureMerge(before, after, seen, avail) ==
    /\ \A p \in DOMAIN before :
        before[p].state = "Split" =>
            LET first == before[p].children[1]
                second == before[p].children[2]
                merged == p \notin DOMAIN after \/ after[p].state # "Split"
            IN  /\ merged => ({first, second} \subseteq seen
                              /\ {first, second} \subseteq avail)
                /\ ~merged => ({first, second} \subseteq DOMAIN after
                               /\ after[p] = before[p])
    /\ \A i \in (DOMAIN before) \ seen :
        /\ i \notin avail
        /\ i \in DOMAIN after
        /\ after[i] = before[i]
        /\ \A p \in DOMAIN before :
            Ancestor(before, p, i) => (p \in DOMAIN after /\ after[p] = before[p])
    /\ \A o \in DOMAIN before :
        before[o].state = "Occupied" => (o \in DOMAIN after /\ after[o] = before[o])

\* C15: in every tidy_gas and tidy_timed call the Block Tree pass (run on the
\* arena as the drain loop left it) turns a Split node Available only if both
\* children were inspected within the budget and both reported available; a
\* node not inspected reports not-available and it and its ancestors keep
\* their state; every node Occupied when the pass starts is still there,
\* Occupied, with the same range.
C15_NoPrematureMerge ==
    [][ /\ last'.op = "tidy_gas" =>
            \A r \in {bk_tidy_gas(blocks, queue, last'.arg)} :
                /\ blocks' = r.arena
                /\ NoPrematureMerge(r.drained, r.arena, r.seen, r.avail)
        /\ last'.op = "tidy_timed" =>
            \A r \in {bk_tidy_timed(blocks, queue, last'.arg)} :
                /\ blocks' = r.arena
                /\ NoPrematureMerge(r.drained, r.arena, r.seen, r.avail) ]_vars

\* a budgeted tidy has run out of budget inside the tree: two Available
\* buddies are left unmerged next to an Occupied node
C15_Witness ==
    /\ last.op \in {"tidy_gas", "tidy_timed"}
    /\ last.arg >= 2
    /\ Occupied # {}
    /\ \E p \in DOMAIN blocks :
        /\ p # root
        /\ blocks[p].state = "Split"
        /\ blocks[blocks[p].children[1]].state = "Available"
        /\ blocks[blocks[p].children[2]].state = "Available"


\* BuddyBookkeeping::tidy_gas called with the same gas again and again on an
\* otherwise idle Manager, until a call changes nothing (each call that
\* changes something shortens the queue or removes nodes)
RECURSIVE repeat_tidy_gas(_, _, _)
repeat_tidy_gas(arena, q, gas) ==
    LET r == bk_tidy_gas(arena, q, gas)
        arena2 == r.arena
        q2 == r.queue
    IN  IF arena2 = arena /\ q2 = q THEN [arena |-> arena, queue |-> q]
        ELSE repeat_tidy_gas(arena2, q2, gas)

\* C16 (as claimed): from any reachable state, calling tidy_gas with the same
\* gas >= 1 until it changes nothing more ends in the tree and queue that a
\* single tidy() produces from that state.  (Stated for the states in which
\* no alloc has yet been given a size that is not a power of two.)
C16_GasReachesTidy ==
    debug_assertions = "either" =>
        \A gas \in 1..MaxGas :
            \A t \in {bk_tidy(blocks, queue)} :
                \A f \in {repeat_tidy_gas(blocks, queue, gas)} :
                    /\ f.arena = t.arena
                    /\ f.queue = t.queue


\* C17: in one tidy_gas(gas) call the gas goes down by one for each entry
\* dealloc'ed and for each node inspected, so the number of deallocs plus the
\* number of nodes inspected is at most gas, and the counter never goes below
\* zero.
C17_GasBoundsWork ==
    [][ last'.op = "tidy_gas" =>
          \A r \in {bk_tidy_gas(blocks, queue, last'.arg)} :
              /\ blocks' = r.arena
              /\ queue' = r.queue
              /\ last'.freed = r.freed
              /\ r.gas >= 0
              /\ r.gas = last'.arg - Len(r.freed) - Cardinality(r.seen)
              /\ Len(r.freed) + Cardinality(r.seen) <= last'.arg ]_vars

\* a tidy_gas call has spent gas on a dealloc and had some, but fewer than
\* three, left for the tree: the block it freed is still in the arena
C17_Witness ==
    /\ last.op = "tidy_gas"
    /\ last.freed # << >>
    /\ last.arg > Len(last.freed)
    /\ last.arg < Len(last.freed) + 3
    /\ last.prev = "drop"
    /\ \E i \in Elems(last.freed) : i \in DOMAIN blocks


\* the Available nodes at least as long as len
Fits(len) ==
    { i \in DOMAIN blocks :
        blocks[i].state = "Available" /\ RangeLen(blocks[i]) >= len }

\* C18: a successful alloc takes the lowest-address Available node p at least
\* as long as the desired size; if p is longer it is split, always descending
\* into the left half, so the node made Occupied starts where p starts, every
\* right half created is Available, and no pre-existing node other than p
\* changes.
C18_LeftBiasedFirstFit ==
    [][ (last'.op = "alloc" /\ last'.result # None) =>
          LET x == last'.result[1]
              desired == RoundedSize(last'.arg)
              created == (DOMAIN blocks') \ (DOMAIN blocks)
          IN  \E p \in Fits(desired) :
                /\ \A i \in Fits(desired) : blocks[p].start <= blocks[i].start
                /\ blocks'[x].start = blocks[p].start
                /\ RangeLen(blocks'[x]) = desired
                /\ blocks'[x].state = "Occupied"
                /\ DOMAIN blocks \subseteq DOMAIN blocks'
                /\ \A i \in (DOMAIN blocks) \ {p} : blocks'[i] = blocks[i]
                /\ RangeLen(blocks[p]) = desired =>
                      (x = p /\ created = {})
                /\ RangeLen(blocks[p]) > desired =>
                      /\ blocks'[p].state = "Split"
                      /\ blocks'[p].start = blocks[p].start
                      /\ blocks'[p].end = blocks[p].end
                      /\ x \in created
                /\ \A n \in created :
                      /\ blocks[p].start <= blocks'[n].start
                      /\ blocks'[n].end <= blocks[p].end
                      /\ RangeLen(blocks'[n]) >= desired
                      /\ IF blocks'[n].start = blocks[p].start
                         THEN IF n = x THEN RangeLen(blocks'[n]) = desired
                              ELSE /\ blocks'[n].state = "Split"
                                   /\ RangeLen(blocks'[n]) > desired
                         ELSE blocks'[n].state = "Available" ]_vars

\* an alloc has passed over the Occupied [0, 2), split the Available [2, 4)
\* and taken its left half
C18_Witness ==
    /\ last.op = "alloc"
    /\ last.result # None
    /\ blocks[last.result[1]].start = 2
    /\ blocks[last.result[1]].end = 3
    /\ \E o \in Occupied : blocks[o].start = 0 /\ blocks[o].end = 2
    /\ \E n \in DOMAIN blocks :
        /\ blocks[n].start = 3
        /\ blocks[n].state = "Available"
    /\ last.prev = "alloc"


\* C19: in every reachable state each index in the queue is that of a node in
\* the arena whose state is Occupied, and no index is queued twice; every
\* entry a tidy variant dealloc'ed was, when the call started, a node in the
\* arena in state Occupied; and no call has panicked on a missing node (the
\* only panic is the debug_assert! of alloc).
C19_OnlyOccupiedDeallocated ==
    /\ [](/\ \A k \in 1..Len(queue) :
              /\ queue[k] \in DOMAIN blocks
              /\ blocks[queue[k]].state = "Occupied"
          /\ NoDuplicates(queue)
          /\ panicked => last.op = "alloc")
    /\ [][ /\ NoDuplicates(last'.freed)
           /\ \A i \in Elems(last'.freed) :
                /\ i \in DOMAIN blocks
                /\ blocks[i].state = "Occupied" ]_vars

\* a tidy() has dealloc'ed two queued entries while a third block stays
\* Occupied
C19_Witness ==
    /\ last.op = "tidy"
    /\ Len(last.freed) = 2
    /\ Occupied # {}


\* C20: from every reachable state with q queued entries and n nodes,
\* tidy_gas(gas) with gas >= q + n leaves the tree and the queue exactly as
\* tidy() leaves them from the same state; and every tidy_gas step taken with
\* that much gas ends in that state.
C20_EnoughGasIsTidy ==
    /\ [](~panicked =>
            LET enough == Len(queue) + Cardinality(DOMAIN blocks)
            IN  \A t \in {bk_tidy(blocks, queue)} :
                  \A gas \in enough..(enough + MaxSpareGas) :
                    \A g \in {bk_tidy_gas(blocks, queue, gas)} :
                        /\ g.arena = t.arena
                        /\ g.queue = t.queue
                        /\ g.freed = t.freed
                        /\ g.panic = t.panic)
    /\ [][ ( /\ last'.op = "tidy_gas"
             /\ last'.arg >= Len(queue) + Cardinality(DOMAIN blocks) )
           => \A t \in {bk_tidy(blocks, queue)} :
                /\ blocks' = t.arena
                /\ queue' = t.queue
                /\ last'.freed = t.freed ]_vars

\* a tidy_gas with exactly q + n gas (one entry, three nodes) has freed the
\* entry and merged the tree back into the root
C20_Witness ==
    /\ last.op = "tidy_gas"
    /\ Len(last.freed) = 1
    /\ last.arg = 4
    /\ last.prev = "drop"
    /\ RootAlone

====
